---- MODULE Spec2Model ----
(***************************************************************************)
(* Quota limiter of PyGPTs (PyGPTs/Gemini/limiter.py): one GeminiLimiter,  *)
(* the wall clock it reads (time.time(), seconds) and the calendar date it *)
(* reads (datetime.now in America/New_York), and one sequential caller.    *)
(* A call that does not wait is one step and reads the clock once; the     *)
(* wait of check_limits is a state of its own (pc = "sleeping") in which   *)
(* only the clock moves, ended by Resume.                                  *)
(* The calendar date is a day number; daylight saving time begins once,    *)
(* at 02:00 of day DstDay; on that day the calls are made after 02:00.     *)
(* The clients manager (PyGPTs/Gemini/clients_manager.py) is the list      *)
(* clients and current_model_index, with a specification of its own.       *)
(* tasks holds the callers that run concurrently and the request in       *)
(* progress, log the events of a run, each in the specification that      *)
(* uses it; elsewhere both stay empty.                                     *)
(***************************************************************************)
EXTENDS Integers, Sequences, FiniteSets, TLC

VARIABLES limiter, now, today, pc, call, clients, current_model_index, tasks, log

vars == <<limiter, now, today, pc, call, clients, current_model_index, tasks, log>>

(* ---- bounds of the model: the limits the limiter is configured with,  *)
(* the largest token count of a call, the last day, the number of clock  *)
(* steps, and how far a counter may run over its limit ---- *)
MaxDayLimit == 2
MaxMinuteLimit == 2
MaxTokensLimit == 1
MaxContextLimit == 2
MaxTokens == 1
MaxDay == 1
DstDay == 1
MaxTicks == 2
Over == 1
MaxClients == 2

(* ---- program constants ---- *)
(* a streamed answer has at most MaxChunks parts, an answer at most        *)
(* MaxCandidates candidates                                               *)
MaxChunks == 2
MaxCandidates == 2

MinuteSeconds == 60

(* the clock moves in steps of TickSeconds *)
TickSeconds == 30

Tokens == {0, MaxTokens}
MaxTime == MaxTicks * TickSeconds

(* ---- outcomes of a call ---- *)
OK == "ok"
GeminiDayLimitException == "GeminiDayLimitException"
GeminiMinuteLimitException == "GeminiMinuteLimitException"
GeminiContextLimitException == "GeminiContextLimitException"
IndexError == "IndexError"
ZeroDivisionError == "ZeroDivisionError"
ValueError == "ValueError"
Sleep == "sleep"

Result(l, o) == [lim |-> l, outcome |-> o]

(* ---- datetime values in America/New_York (pytz) ---- *)
(* A datetime at midnight: its calendar date and the tzinfo it carries.    *)
(* A pytz tzinfo taken from a converted datetime has a fixed offset.       *)
None == [none |-> TRUE]

(* an Optional[int] or Optional[str] argument or attribute that is not None *)
Optional(x) == [value |-> x]

datetime(date, tzinfo) == [date |-> date, tzinfo |-> tzinfo]

utcoffset(tzinfo) == IF tzinfo = "EDT" THEN 0 - 4 ELSE 0 - 5

(* hours since 00:00 UTC of day 0 *)
utc(dt) == dt.date * 24 - utcoffset(dt.tzinfo)

(* the zone's rule: EDT from 02:00 EST (07:00 UTC) of day DstDay on *)
NewYork(u) == IF u >= DstDay * 24 + 7 THEN "EDT" ELSE "EST"

(* mutant: the conversion keeps the wall clock fields *)
astimezone_keeps_wall_clock(dt) ==
  [date |-> dt.date, hour |-> 0, tzinfo |-> NewYork(utc(dt))]

(* dt.astimezone(pytz.timezone("America/New_York")): the same instant on   *)
(* the zone's wall clock                                                   *)
astimezone(dt) ==
  LET tz == NewYork(utc(dt))
      wall == utc(dt) + utcoffset(tz)
  IN [date |-> wall \div 24, hour |-> wall % 24, tzinfo |-> tz]

(* datetime.now(tz = America/New_York) *)
(* whether daylight saving time has begun when a call is made *)
dst == today >= DstDay

datetime_now == [date |-> today, tzinfo |-> IF dst THEN "EDT" ELSE "EST"]

(* ---- GeminiLimiterSettings / GeminiLimiter construction ---- *)
GeminiLimiterSettings(limit_day, dayUsed, dayLimit, minuteLimit, tokensLimit, ctxUsed, ctxLimit, raise) ==
  [limit_day |->
     LET ld == IF limit_day = None THEN datetime_now ELSE astimezone(limit_day)
     IN datetime(ld.date, ld.tzinfo),
   request_per_day_used |-> dayUsed,
   request_per_day_limit |-> dayLimit,
   request_per_minute_limit |-> minuteLimit,
   tokens_per_minute_limit |-> tokensLimit,
   context_used |-> ctxUsed,
   context_limit |-> ctxLimit,
   raise_error_on_minute_limit |-> raise]

GeminiLimiter(s, t) ==
  [limit_day |-> s.limit_day,
   request_per_day_used |-> s.request_per_day_used,
   request_per_day_limit |-> s.request_per_day_limit,
   request_per_minute_limit |-> s.request_per_minute_limit,
   tokens_per_minute_limit |-> s.tokens_per_minute_limit,
   context_used |-> s.context_used,
   context_limit |-> s.context_limit,
   raise_error_on_minute_limit |-> s.raise_error_on_minute_limit,
   request_per_minute_used |-> 0,
   tokens_per_minute_used |-> 0,
   start_time |-> t]

(* ---- properties of the limiter ---- *)
(* mutants: one counter decides alone; the limit itself is still allowed *)
has_minute_limits_or(l) ==
  \/ l.request_per_minute_used < l.request_per_minute_limit
  \/ l.tokens_per_minute_used < l.tokens_per_minute_limit

has_minute_limits_le(l) ==
  /\ l.request_per_minute_used <= l.request_per_minute_limit
  /\ l.tokens_per_minute_used <= l.tokens_per_minute_limit

has_minute_limits(l) ==
  /\ l.request_per_minute_used < l.request_per_minute_limit
  /\ l.tokens_per_minute_used < l.tokens_per_minute_limit

(* mutant: the window is taken to end after half a minute *)
minute_exceeded_half(l, t) == 2 * (t - l.start_time) >= MinuteSeconds

minute_exceeded(l, t) == t - l.start_time >= MinuteSeconds

(* mutant: a full context still counts as available *)
has_context_le(l) == l.context_used <= l.context_limit

has_context(l) == l.context_used < l.context_limit

(* mutant: the limit itself is still allowed *)
has_day_limits_le(l) == l.request_per_day_used <= l.request_per_day_limit

(* mutant: only the limit itself counts as exhausted *)
has_day_limits_ne(l) == l.request_per_day_used /= l.request_per_day_limit

has_day_limits(l) == l.request_per_day_used < l.request_per_day_limit

limit_day_exceeded(l, d) == d.date /= l.limit_day.date

(* mutant: the token counter is not restarted *)
restart_minute_counters_keep_tokens(l, last_tokens, t) ==
  [l EXCEPT !.request_per_minute_used = 1, !.start_time = t]

(* mutant: the window start is kept *)
restart_minute_counters_keep_start(l, last_tokens, t) ==
  [l EXCEPT !.request_per_minute_used = 1,
            !.tokens_per_minute_used = last_tokens]

restart_minute_counters(l, last_tokens, t) ==
  [l EXCEPT !.request_per_minute_used = 1,
            !.tokens_per_minute_used = last_tokens,
            !.start_time = t]

(* mutant: the triggering request is not counted into the new day *)
restart_day_counters_zero(l, d) ==
  [l EXCEPT !.request_per_day_used = 0, !.limit_day = datetime(d.date, d.tzinfo)]

(* mutant: the day counter restarts but the day stays *)
restart_day_counters_keep_day(l, d) ==
  [l EXCEPT !.request_per_day_used = 1]

restart_day_counters(l, d) ==
  [l EXCEPT !.request_per_day_used = 1, !.limit_day = datetime(d.date, d.tzinfo)]

(* mutant: the context check comes first *)
check_limits_context_first(l, last_tokens, t, d) ==
  IF ~has_context(l)
  THEN Result(l, GeminiContextLimitException)
  ELSE IF ~limit_day_exceeded(l, d) /\ ~has_day_limits(l)
  THEN Result(l, GeminiDayLimitException)
  ELSE LET l1 == IF limit_day_exceeded(l, d) THEN restart_day_counters(l, d) ELSE l
       IN IF minute_exceeded(l1, t)
          THEN Result(restart_minute_counters(l1, last_tokens, t), OK)
          ELSE IF ~has_minute_limits(l1)
          THEN IF l1.raise_error_on_minute_limit
               THEN Result(l1, GeminiMinuteLimitException)
               ELSE Result(l1, Sleep)
          ELSE Result(l1, OK)

(* mutant: the call returns right after the day rollover *)
check_limits_return_after_day(l, last_tokens, t, d) ==
  IF ~limit_day_exceeded(l, d) /\ ~has_day_limits(l)
  THEN Result(l, GeminiDayLimitException)
  ELSE IF ~has_context(l)
  THEN Result(l, GeminiContextLimitException)
  ELSE IF limit_day_exceeded(l, d)
  THEN Result(restart_day_counters(l, d), OK)
  ELSE IF minute_exceeded(l, t)
  THEN Result(restart_minute_counters(l, last_tokens, t), OK)
  ELSE IF ~has_minute_limits(l)
  THEN IF l.raise_error_on_minute_limit
       THEN Result(l, GeminiMinuteLimitException)
       ELSE Result(l, Sleep)
  ELSE Result(l, OK)

(* mutant: raise_error_on_minute_limit is not consulted *)
check_limits_always_raise(l, last_tokens, t, d) ==
  IF ~limit_day_exceeded(l, d) /\ ~has_day_limits(l)
  THEN Result(l, GeminiDayLimitException)
  ELSE IF ~has_context(l)
  THEN Result(l, GeminiContextLimitException)
  ELSE LET l1 == IF limit_day_exceeded(l, d) THEN restart_day_counters(l, d) ELSE l
       IN IF minute_exceeded(l1, t)
          THEN Result(restart_minute_counters(l1, last_tokens, t), OK)
          ELSE IF ~has_minute_limits(l1)
          THEN Result(l1, GeminiMinuteLimitException)
          ELSE Result(l1, OK)

(* check_limits up to the point where it returns, raises or starts to wait *)
check_limits(l, last_tokens, t, d) ==
  IF ~limit_day_exceeded(l, d) /\ ~has_day_limits(l)
  THEN Result(l, GeminiDayLimitException)
  ELSE IF ~has_context(l)
  THEN Result(l, GeminiContextLimitException)
  ELSE LET l1 == IF limit_day_exceeded(l, d) THEN restart_day_counters(l, d) ELSE l
       IN IF minute_exceeded(l1, t)
          THEN Result(restart_minute_counters(l1, last_tokens, t), OK)
          ELSE IF ~has_minute_limits(l1)
          THEN IF l1.raise_error_on_minute_limit
               THEN Result(l1, GeminiMinuteLimitException)
               ELSE Result(l1, Sleep)
          ELSE Result(l1, OK)

(* mutant: the cooperative variant does not wait *)
async_check_limits_no_wait(l, last_tokens, t, d) ==
  IF ~limit_day_exceeded(l, d) /\ ~has_day_limits(l)
  THEN Result(l, GeminiDayLimitException)
  ELSE IF ~has_context(l)
  THEN Result(l, GeminiContextLimitException)
  ELSE LET l1 == IF limit_day_exceeded(l, d) THEN restart_day_counters(l, d) ELSE l
       IN IF minute_exceeded(l1, t)
          THEN Result(restart_minute_counters(l1, last_tokens, t), OK)
          ELSE IF ~has_minute_limits(l1)
          THEN IF l1.raise_error_on_minute_limit
               THEN Result(l1, GeminiMinuteLimitException)
               ELSE Result(restart_minute_counters(l1, last_tokens, t), OK)
          ELSE Result(l1, OK)

async_check_limits(l, last_tokens, t, d) ==
  IF ~limit_day_exceeded(l, d) /\ ~has_day_limits(l)
  THEN Result(l, GeminiDayLimitException)
  ELSE IF ~has_context(l)
  THEN Result(l, GeminiContextLimitException)
  ELSE LET l1 == IF limit_day_exceeded(l, d) THEN restart_day_counters(l, d) ELSE l
       IN IF minute_exceeded(l1, t)
          THEN Result(restart_minute_counters(l1, last_tokens, t), OK)
          ELSE IF ~has_minute_limits(l1)
          THEN IF l1.raise_error_on_minute_limit
               THEN Result(l1, GeminiMinuteLimitException)
               ELSE Result(l1, Sleep)
          ELSE Result(l1, OK)

(* mutant: the tokens to add are left out of the comparison *)
add_context_ignores_tokens(l, tokens) ==
  IF l.context_used > l.context_limit
  THEN Result(l, GeminiContextLimitException)
  ELSE Result([l EXCEPT !.context_used = @ + tokens], OK)

add_context(l, tokens) ==
  IF l.context_used + tokens > l.context_limit
  THEN Result(l, GeminiContextLimitException)
  ELSE Result([l EXCEPT !.context_used = @ + tokens], OK)

(* mutant: the limits are checked before the context is added *)
add_data_check_first(l, tokens, t, d) ==
  LET l1 == [l EXCEPT !.request_per_day_used = @ + 1,
                      !.request_per_minute_used = @ + 1,
                      !.tokens_per_minute_used = @ + tokens]
      c == check_limits(l1, tokens, t, d)
  IN IF c.outcome /= OK THEN c ELSE add_context(c.lim, tokens)

(* mutant: a rejected call restores the counters *)
add_data_rollback(l, tokens, t, d) ==
  LET l1 == [l EXCEPT !.request_per_day_used = @ + 1,
                      !.request_per_minute_used = @ + 1,
                      !.tokens_per_minute_used = @ + tokens]
      r == add_context(l1, tokens)
      c == IF r.outcome /= OK THEN r ELSE check_limits(r.lim, tokens, t, d)
  IN IF c.outcome \in {OK, Sleep} THEN c ELSE Result(l, c.outcome)

add_data(l, tokens, t, d) ==
  LET l1 == [l EXCEPT !.request_per_day_used = @ + 1,
                      !.request_per_minute_used = @ + 1,
                      !.tokens_per_minute_used = @ + tokens]
      r == add_context(l1, tokens)
  IN IF r.outcome /= OK THEN r ELSE check_limits(r.lim, tokens, t, d)

async_add_data(l, tokens, t, d) ==
  LET l1 == [l EXCEPT !.request_per_day_used = @ + 1,
                      !.request_per_minute_used = @ + 1,
                      !.tokens_per_minute_used = @ + tokens]
      r == add_context(l1, tokens)
  IN IF r.outcome /= OK THEN r ELSE async_check_limits(r.lim, tokens, t, d)

clear_context(l) == [l EXCEPT !.context_used = 0]

close_day_limit(l) == [l EXCEPT !.request_per_day_used = l.request_per_day_limit]

(* mutant: only the request counter is closed *)
close_minute_limit_requests_only(l) ==
  [l EXCEPT !.request_per_minute_used = l.request_per_minute_limit]

close_minute_limit(l) ==
  [l EXCEPT !.request_per_minute_used = l.request_per_minute_limit,
            !.tokens_per_minute_used = l.tokens_per_minute_limit]

(* mutant: the context may not be emptied *)
decrease_context_le(l, tokens) ==
  IF l.context_used - tokens <= 0
  THEN Result(l, ValueError)
  ELSE Result([l EXCEPT !.context_used = @ - tokens], OK)

decrease_context(l, tokens) ==
  IF l.context_used - tokens < 0
  THEN Result(l, ValueError)
  ELSE Result([l EXCEPT !.context_used = @ - tokens], OK)

(* the limiter_settings property: a new GeminiLimiterSettings built from   *)
(* the limiter's attributes of the same names                              *)
limiter_settings(l) ==
  GeminiLimiterSettings(l.limit_day, l.request_per_day_used,
                        l.request_per_day_limit, l.request_per_minute_limit,
                        l.tokens_per_minute_limit, l.context_used,
                        l.context_limit, l.raise_error_on_minute_limit)

(* the limiter_settings setter *)
set_limiter_settings(l, s, t) ==
  [l EXCEPT !.limit_day = s.limit_day,
            !.request_per_day_used = s.request_per_day_used,
            !.request_per_day_limit = s.request_per_day_limit,
            !.request_per_minute_limit = s.request_per_minute_limit,
            !.tokens_per_minute_limit = s.tokens_per_minute_limit,
            !.context_used = s.context_used,
            !.context_limit = s.context_limit,
            !.raise_error_on_minute_limit = s.raise_error_on_minute_limit,
            !.request_per_minute_used = 0,
            !.tokens_per_minute_used = 0,
            !.start_time = t]

(* ---- the call record: the call made by the last step ---- *)
Call(op, arg, pre, outcome) ==
  [op |-> op, arg |-> arg, pre |-> pre, now |-> now, today |-> today, outcome |-> outcome]

NoCall == [op |-> "none"]

(* the counters grow without bound on rejected calls: a call is made only  *)
(* while each counter is at most Over above its limit                      *)
CanRecord(l, tokens) ==
  /\ l.request_per_day_used < l.request_per_day_limit + Over
  /\ l.request_per_minute_used < l.request_per_minute_limit + Over
  /\ l.tokens_per_minute_used < l.tokens_per_minute_limit + Over

Finish(op, arg, r) ==
  /\ limiter' = r.lim
  /\ pc' = IF r.outcome = Sleep THEN "sleeping" ELSE "idle"
  /\ call' = Call(op, arg, limiter, r.outcome)
  /\ UNCHANGED <<now, today, clients, current_model_index, tasks, log>>

(* calls are made up to the time horizon MaxTime; a wait begun before it   *)
(* runs to its end                                                         *)
Idle == pc = "idle" /\ now <= MaxTime

(* ---- actions ---- *)
Init ==
  /\ now = 0
  /\ today = 0
  /\ pc = "idle"
  /\ call = NoCall
  /\ clients = <<>>
  /\ current_model_index = None
  /\ tasks = <<>>
  /\ log = <<>>
  /\ \E raise \in BOOLEAN :
       limiter = GeminiLimiter(
         GeminiLimiterSettings(None, 0, MaxDayLimit, MaxMinuteLimit,
                               MaxTokensLimit, 0, MaxContextLimit, raise), now)

CheckLimits(tokens) ==
  /\ Idle
  /\ Finish("check_limits", tokens, check_limits(limiter, tokens, now, datetime_now))

AsyncCheckLimits(tokens) ==
  /\ Idle
  /\ Finish("async_check_limits", tokens, async_check_limits(limiter, tokens, now, datetime_now))

AddContext(tokens) ==
  /\ Idle
  /\ Finish("add_context", tokens, add_context(limiter, tokens))

AddData(tokens) ==
  /\ Idle
  /\ CanRecord(limiter, tokens)
  /\ Finish("add_data", tokens, add_data(limiter, tokens, now, datetime_now))

AsyncAddData(tokens) ==
  /\ Idle
  /\ CanRecord(limiter, tokens)
  /\ Finish("async_add_data", tokens, async_add_data(limiter, tokens, now, datetime_now))

DecreaseContext(tokens) ==
  /\ Idle
  /\ Finish("decrease_context", tokens, decrease_context(limiter, tokens))

ClearContext ==
  /\ Idle
  /\ Finish("clear_context", 0, Result(clear_context(limiter), OK))

CloseDayLimit ==
  /\ Idle
  /\ Finish("close_day_limit", 0, Result(close_day_limit(limiter), OK))

CloseMinuteLimit ==
  /\ Idle
  /\ Finish("close_minute_limit", 0, Result(close_minute_limit(limiter), OK))

(* a restart: the settings are exported and a new limiter is built from   *)
(* them                                                                   *)
Restart ==
  /\ Idle
  /\ Finish("GeminiLimiter", 0,
            Result(GeminiLimiter(limiter_settings(limiter), now), OK))

(* the exported settings are imported through the setter *)
SetLimiterSettings ==
  /\ Idle
  /\ Finish("limiter_settings", 0,
            Result(set_limiter_settings(limiter, limiter_settings(limiter), now), OK))

(* time.sleep / asyncio.sleep returns once the requested time has passed; *)
(* the call then restarts the minute counters and returns                 *)
Resume ==
  /\ pc = "sleeping"
  /\ now - call.now >= MinuteSeconds - (call.now - limiter.start_time)
  /\ limiter' = restart_minute_counters(limiter, call.arg, now)
  /\ pc' = "idle"
  /\ call' = [call EXCEPT !.outcome = OK]
  /\ UNCHANGED <<now, today, clients, current_model_index, tasks, log>>

(* the clock moves; a call that is not in progress is then over *)
Tick ==
  /\ \/ now + TickSeconds <= MaxTime
     \/ pc = "sleeping" /\ now - call.now < MinuteSeconds - (call.now - limiter.start_time)
  /\ now' = now + TickSeconds
  /\ call' = IF pc = "sleeping" THEN call ELSE NoCall
  /\ UNCHANGED <<limiter, today, pc, clients, current_model_index, tasks, log>>

(* midnight *)
NewDay ==
  /\ today < MaxDay
  /\ today' = today + 1
  /\ call' = IF pc = "sleeping" THEN call ELSE NoCall
  /\ UNCHANGED <<limiter, now, pc, clients, current_model_index, tasks, log>>

Next ==
  \/ \E tokens \in Tokens : CheckLimits(tokens)
  \/ \E tokens \in Tokens : AsyncCheckLimits(tokens)
  \/ \E tokens \in Tokens : AddContext(tokens)
  \/ \E tokens \in Tokens : AddData(tokens)
  \/ \E tokens \in Tokens : AsyncAddData(tokens)
  \/ \E tokens \in Tokens : DecreaseContext(tokens)
  \/ ClearContext
  \/ CloseDayLimit
  \/ CloseMinuteLimit
  \/ Restart
  \/ SetLimiterSettings
  \/ Resume
  \/ Tick
  \/ NewDay

Spec == Init /\ [][Next]_vars

(* ======================= properties ======================= *)
CheckOps == {"check_limits", "async_check_limits"}
RecordOps == {"add_data", "async_add_data"}

DayExpiredAtCall == call.today /= call.pre.limit_day.date
DayExhaustedAtCall == call.pre.request_per_day_used >= call.pre.request_per_day_limit
ContextExhaustedAtCall == call.pre.context_used >= call.pre.context_limit
MinuteExpiredAtCall == call.now - call.pre.start_time >= 60
MinuteExhaustedAtCall ==
  \/ call.pre.request_per_minute_used >= call.pre.request_per_minute_limit
  \/ call.pre.tokens_per_minute_used >= call.pre.tokens_per_minute_limit
MinuteFieldsUnchanged ==
  /\ limiter.request_per_minute_used = call.pre.request_per_minute_used
  /\ limiter.tokens_per_minute_used = call.pre.tokens_per_minute_used
  /\ limiter.start_time = call.pre.start_time

(* C1: context_used never exceeds context_limit, and an add_context or    *)
(* add_data / async_add_data call whose tokens do not fit                  *)
(* (context_used + tokens > context_limit) raises                          *)
(* GeminiContextLimitException and leaves context_used as it was.          *)
C1_ContextInvariant ==
  /\ limiter.context_used <= limiter.context_limit
  /\ (/\ call.op \in {"add_context"} \cup RecordOps
      /\ call.pre.context_used + call.arg > call.pre.context_limit)
     => /\ call.outcome = GeminiContextLimitException
        /\ limiter.context_used = call.pre.context_used

C1_Witness ==
  /\ call.op = "add_context"
  /\ call.pre.context_used > 0
  /\ call.pre.context_used + call.arg > call.pre.context_limit
  /\ call.outcome = GeminiContextLimitException

(* C2: check_limits checks in a fixed order: an unexpired, exhausted day   *)
(* raises GeminiDayLimitException before anything else (also when the      *)
(* context is exhausted too); otherwise an exhausted context raises        *)
(* GeminiContextLimitException before any day or minute rollover: the      *)
(* limiter is unchanged in both cases.                                     *)
C2_CheckOrder ==
  call.op \in CheckOps =>
    /\ (~DayExpiredAtCall /\ DayExhaustedAtCall)
       => (call.outcome = GeminiDayLimitException /\ limiter = call.pre)
    /\ (~(~DayExpiredAtCall /\ DayExhaustedAtCall) /\ ContextExhaustedAtCall)
       => (call.outcome = GeminiContextLimitException /\ limiter = call.pre)

C2_Witness ==
  /\ call.op = "check_limits"
  /\ ~DayExpiredAtCall /\ DayExhaustedAtCall /\ ContextExhaustedAtCall
  /\ call.outcome = GeminiDayLimitException

(* C3 as stated: an add_data / async_add_data call rejected with the day   *)
(* or the minute exception leaves request_per_day_used and                 *)
(* request_per_minute_used 1 higher and tokens_per_minute_used and         *)
(* context_used higher by tokens than before the call.                     *)
C3_Original ==
  (call.op \in RecordOps
     /\ call.outcome \in {GeminiDayLimitException, GeminiMinuteLimitException})
  => /\ limiter.request_per_day_used = call.pre.request_per_day_used + 1
     /\ limiter.request_per_minute_used = call.pre.request_per_minute_used + 1
     /\ limiter.tokens_per_minute_used = call.pre.tokens_per_minute_used + call.arg
     /\ limiter.context_used = call.pre.context_used + call.arg

(* C3 amended: such a rejected call leaves request_per_minute_used 1       *)
(* higher and tokens_per_minute_used and context_used higher by tokens;    *)
(* request_per_day_used is 1 higher when the day window had not expired,   *)
(* and is 1 (the day was rolled over before the minute exception) when it  *)
(* had.                                                                    *)
C3_Amended ==
  (call.op \in RecordOps
     /\ call.outcome \in {GeminiDayLimitException, GeminiMinuteLimitException})
  => /\ limiter.request_per_day_used =
          IF DayExpiredAtCall THEN 1 ELSE call.pre.request_per_day_used + 1
     /\ limiter.request_per_minute_used = call.pre.request_per_minute_used + 1
     /\ limiter.tokens_per_minute_used = call.pre.tokens_per_minute_used + call.arg
     /\ limiter.context_used = call.pre.context_used + call.arg

C3_Witness ==
  /\ call.op = "add_data"
  /\ call.outcome = GeminiMinuteLimitException
  /\ DayExpiredAtCall
  /\ call.pre.request_per_day_used >= 1
  /\ call.arg > 0
  /\ limiter.request_per_day_used = 1
  /\ limiter.context_used = call.pre.context_used + call.arg

(* C5: while the day window has not expired, add_data / async_add_data     *)
(* raises GeminiDayLimitException whenever request_per_day_used + 1 >=     *)
(* request_per_day_limit before the call and the tokens fit the context.   *)
C5_DayLimitAfterIncrement ==
  (/\ call.op \in RecordOps
   /\ ~DayExpiredAtCall
   /\ call.pre.request_per_day_used + 1 >= call.pre.request_per_day_limit
   /\ call.pre.context_used + call.arg <= call.pre.context_limit)
  => call.outcome = GeminiDayLimitException

C5_Witness ==
  /\ call.op = "async_add_data"
  /\ ~DayExpiredAtCall
  /\ call.pre.request_per_day_used + 1 = call.pre.request_per_day_limit
  /\ call.pre.context_used + call.arg < call.pre.context_limit
  /\ call.outcome = GeminiDayLimitException

(* C6: when the stored day differs from today, a check_limits call with    *)
(* context budget is not rejected for day exhaustion, whatever             *)
(* request_per_day_used is, and sets request_per_day_used = 1 and          *)
(* limit_day = today.                                                      *)
C6_DayRollover ==
  (call.op \in CheckOps /\ DayExpiredAtCall /\ ~ContextExhaustedAtCall)
  => /\ call.outcome /= GeminiDayLimitException
     /\ limiter.request_per_day_used = 1
     /\ limiter.limit_day.date = call.today

C6_Witness ==
  /\ call.op = "check_limits"
  /\ DayExpiredAtCall /\ ~ContextExhaustedAtCall
  /\ call.pre.request_per_day_used > call.pre.request_per_day_limit
  /\ call.outcome = OK
  /\ limiter.request_per_day_used = 1

C8_Original ==
  (call.op \in CheckOps /\ MinuteExpiredAtCall)
  => /\ call.outcome = OK
     /\ limiter.request_per_minute_used = 1
     /\ limiter.tokens_per_minute_used = call.arg
     /\ limiter.start_time = call.now

(* C8 amended: the same, for a call that passes the day and context checks *)
(* (the day window has expired or day quota remains, and context budget    *)
(* remains); regardless of the minute counters and of                      *)
(* raise_error_on_minute_limit.                                            *)
C8_Amended ==
  (/\ call.op \in CheckOps /\ MinuteExpiredAtCall
   /\ (DayExpiredAtCall \/ ~DayExhaustedAtCall)
   /\ ~ContextExhaustedAtCall)
  => /\ call.outcome = OK /\ pc = "idle"
     /\ limiter.request_per_minute_used = 1
     /\ limiter.tokens_per_minute_used = call.arg
     /\ limiter.start_time = call.now

C8_Witness ==
  /\ call.op = "check_limits"
  /\ MinuteExpiredAtCall
  /\ call.pre.request_per_minute_used > call.pre.request_per_minute_limit
  /\ call.pre.tokens_per_minute_used >= call.pre.tokens_per_minute_limit
  /\ call.pre.raise_error_on_minute_limit
  /\ call.arg /= call.pre.tokens_per_minute_used
  /\ call.outcome = OK
  /\ limiter.request_per_minute_used = 1
  /\ limiter.start_time = call.now

(* C9: in raise mode, with day quota and context budget available, the     *)
(* minute window unexpired and either minute counter at its limit,         *)
(* check_limits raises GeminiMinuteLimitException at once: no wait, and    *)
(* the minute counters and start_time are unchanged.                       *)
C9_RaiseOnMinuteLimit ==
  (/\ call.op \in CheckOps
   /\ call.pre.raise_error_on_minute_limit
   /\ ~DayExhaustedAtCall /\ ~ContextExhaustedAtCall
   /\ ~MinuteExpiredAtCall /\ MinuteExhaustedAtCall)
  => /\ call.outcome = GeminiMinuteLimitException
     /\ pc = "idle"
     /\ now = call.now
     /\ MinuteFieldsUnchanged

C9_Witness ==
  /\ call.op = "check_limits"
  /\ call.pre.raise_error_on_minute_limit
  /\ ~DayExhaustedAtCall /\ ~ContextExhaustedAtCall /\ ~MinuteExpiredAtCall
  /\ call.pre.request_per_minute_used < call.pre.request_per_minute_limit
  /\ call.pre.tokens_per_minute_used >= call.pre.tokens_per_minute_limit
  /\ call.outcome = GeminiMinuteLimitException

(* ---- the waiting call under fairness ---- *)
(* a limiter in wait mode; time passes, and a sleep whose time has passed  *)
(* returns                                                                 *)
InitWait == Init /\ ~limiter.raise_error_on_minute_limit

FairSpec == InitWait /\ [][Next]_vars /\ WF_vars(Tick) /\ WF_vars(Resume)

WaitCase ==
  /\ call.op \in CheckOps
  /\ ~call.pre.raise_error_on_minute_limit
  /\ ~DayExhaustedAtCall /\ ~ContextExhaustedAtCall
  /\ ~MinuteExpiredAtCall /\ MinuteExhaustedAtCall

Resumed ==
  /\ pc = "idle"
  /\ call.outcome = OK
  /\ limiter.request_per_minute_used = 1
  /\ limiter.tokens_per_minute_used = call.arg
  /\ limiter.start_time = now
  /\ now >= call.pre.start_time + 60

ScenarioTokens == {50}

Fixture(raise) ==
  GeminiLimiter(
    GeminiLimiterSettings(datetime(0, "EST"), 0, 10, 2, 100, 0, 1000, raise), 0)

InitScenario ==
  /\ now = 0
  /\ today = 0
  /\ pc = "idle"
  /\ call = NoCall
  /\ clients = <<>>
  /\ current_model_index = None
  /\ tasks = <<>>
  /\ log = <<>>
  /\ \E raise \in BOOLEAN : limiter = Fixture(raise)

NextScenario ==
  \/ \E tokens \in ScenarioTokens : CheckLimits(tokens)
  \/ \E tokens \in ScenarioTokens : AsyncCheckLimits(tokens)
  \/ \E tokens \in ScenarioTokens : AddContext(tokens)
  \/ \E tokens \in ScenarioTokens : AddData(tokens)
  \/ \E tokens \in ScenarioTokens : AsyncAddData(tokens)
  \/ \E tokens \in ScenarioTokens : DecreaseContext(tokens)
  \/ ClearContext
  \/ CloseDayLimit
  \/ CloseMinuteLimit
  \/ Resume
  \/ Tick
  \/ NewDay

SpecScenario == InitScenario /\ [][NextScenario]_vars

(* the fixture after n calls of 50 tokens, none of which rolled a window *)
AfterCalls(n) ==
  [Fixture(TRUE) EXCEPT !.request_per_day_used = n,
                        !.request_per_minute_used = n,
                        !.tokens_per_minute_used = 50 * n,
                        !.context_used = 50 * n]

ImmediateRecord ==
  /\ call.op \in RecordOps
  /\ call.arg = 50
  /\ ~DayExpiredAtCall
  /\ ~MinuteExpiredAtCall

(* C4 as stated: on the fresh fixture in raise mode, within one minute and *)
(* one day, the first add_data(50) completes and leaves context_used = 50, *)
(* request_per_day_used = 1, request_per_minute_used = 1,                  *)
(* tokens_per_minute_used = 50; the second completes and leaves            *)
(* request_per_minute_used = 2; the third is the one that raises           *)
(* GeminiMinuteLimitException.                                             *)
C4_Original ==
  ImmediateRecord =>
    /\ call.pre = AfterCalls(0) => (call.outcome = OK /\ limiter = AfterCalls(1))
    /\ call.pre = AfterCalls(1)
         => (call.outcome = OK /\ limiter.request_per_minute_used = 2)
    /\ call.pre = AfterCalls(2) => call.outcome = GeminiMinuteLimitException

(* C4 amended: the first add_data(50) completes as stated; the second      *)
(* leaves request_per_minute_used = 2 (and tokens_per_minute_used = 100,   *)
(* request_per_day_used = 2, context_used = 100) but is itself the first   *)
(* call to raise GeminiMinuteLimitException, both minute counters having   *)
(* reached their limits; a third immediate call raises it too.             *)
C4_Amended ==
  ImmediateRecord =>
    /\ call.pre = AfterCalls(0) => (call.outcome = OK /\ limiter = AfterCalls(1))
    /\ call.pre = AfterCalls(1)
         => (call.outcome = GeminiMinuteLimitException /\ limiter = AfterCalls(2))
    /\ call.pre = AfterCalls(2)
         => (call.outcome = GeminiMinuteLimitException /\ limiter = AfterCalls(3))

C4_Witness ==
  /\ ImmediateRecord
  /\ call.op = "add_data"
  /\ call.pre = AfterCalls(1)
  /\ call.outcome = GeminiMinuteLimitException
  /\ limiter = AfterCalls(2)

(* ---- frame conditions and step invariants ---- *)
ContextOps == {"add_context", "decrease_context", "clear_context"}
CloseOps == {"close_day_limit", "close_minute_limit"}
LimiterOps == CheckOps \cup RecordOps \cup ContextOps \cup CloseOps

(* C11: a check_limits / async_check_limits call made while the day has    *)
(* not expired, the day quota, the context and the minute quota are all    *)
(* available and the minute has not expired returns and changes no field   *)
(* of the limiter.                                                         *)
C11_AdmitChangesNothing ==
  (/\ call.op \in CheckOps
   /\ ~DayExpiredAtCall /\ ~DayExhaustedAtCall /\ ~ContextExhaustedAtCall
   /\ ~MinuteExpiredAtCall /\ ~MinuteExhaustedAtCall)
  => /\ call.outcome = OK
     /\ pc = "idle"
     /\ limiter = call.pre

C11_Witness ==
  /\ call.op = "check_limits"
  /\ ~DayExpiredAtCall /\ ~DayExhaustedAtCall /\ ~ContextExhaustedAtCall
  /\ ~MinuteExpiredAtCall /\ ~MinuteExhaustedAtCall
  /\ call.now - call.pre.start_time > 0
  /\ call.pre.request_per_day_used > 0
  /\ call.pre.request_per_minute_used > 0
  /\ call.outcome = OK

(* C12: day exhaustion is absorbing while the day lasts: from a limiter    *)
(* with request_per_day_used >= request_per_day_limit whose limit_day is   *)
(* the current date, every add_data, check_limits, add_context,            *)
(* decrease_context, clear_context and close_minute_limit call (and their  *)
(* async variants) leaves the day exhausted and limit_day as it is, every  *)
(* check_limits call raises GeminiDayLimitException and no add_data call   *)
(* is admitted.                                                            *)
C12_DayExhaustionAbsorbing ==
  [][(/\ pc = "idle"
      /\ limiter.request_per_day_used >= limiter.request_per_day_limit
      /\ today = limiter.limit_day.date
      /\ call'.op \in LimiterOps \ {"close_day_limit"})
     => /\ limiter'.request_per_day_used >= limiter'.request_per_day_limit
        /\ limiter'.limit_day = limiter.limit_day
        /\ call'.op \in CheckOps => call'.outcome = GeminiDayLimitException
        /\ call'.op \in RecordOps => call'.outcome \notin {OK, Sleep}]_vars

C12_Witness ==
  /\ call.op = "add_data"
  /\ call.pre.request_per_day_used >= call.pre.request_per_day_limit
  /\ ~DayExpiredAtCall
  /\ ~ContextExhaustedAtCall
  /\ call.outcome = GeminiDayLimitException

(* C13: decrease_context(tokens) with tokens > context_used raises         *)
(* ValueError and changes nothing; with 0 <= tokens <= context_used it     *)
(* subtracts tokens from context_used and changes nothing else;            *)
(* context_used is never negative.                                         *)
C13_DecreaseContext ==
  /\ limiter.context_used >= 0
  /\ call.op = "decrease_context" =>
       IF call.arg > call.pre.context_used
       THEN call.outcome = ValueError /\ limiter = call.pre
       ELSE /\ call.outcome = OK
            /\ limiter = [call.pre EXCEPT !.context_used = @ - call.arg]

C13_Witness ==
  /\ call.op = "decrease_context"
  /\ call.arg > 0
  /\ call.arg = call.pre.context_used
  /\ call.outcome = OK
  /\ limiter.context_used = 0

(* C14: close_day_limit sets only request_per_day_used, to its limit;      *)
(* close_minute_limit sets only request_per_minute_used and                *)
(* tokens_per_minute_used, to their limits, and keeps start_time;          *)
(* clear_context sets only context_used, to 0; after the close calls the   *)
(* day quota, respectively the minute quota, is no longer available.       *)
C14_PureAssignments ==
  /\ call.op = "close_day_limit" =>
       /\ limiter = [call.pre EXCEPT
                       !.request_per_day_used = call.pre.request_per_day_limit]
       /\ ~(limiter.request_per_day_used < limiter.request_per_day_limit)
  /\ call.op = "close_minute_limit" =>
       /\ limiter = [call.pre EXCEPT
                       !.request_per_minute_used = call.pre.request_per_minute_limit,
                       !.tokens_per_minute_used = call.pre.tokens_per_minute_limit]
       /\ limiter.start_time = call.pre.start_time
       /\ ~(/\ limiter.request_per_minute_used < limiter.request_per_minute_limit
            /\ limiter.tokens_per_minute_used < limiter.tokens_per_minute_limit)
  /\ call.op = "clear_context" =>
       limiter = [call.pre EXCEPT !.context_used = 0]

C14_Witness ==
  /\ call.op = "close_minute_limit"
  /\ call.pre.request_per_minute_used > 0
  /\ call.pre.request_per_minute_used < call.pre.request_per_minute_limit
  /\ call.pre.tokens_per_minute_used < call.pre.tokens_per_minute_limit
  /\ call.pre.context_used > 0
  /\ call.now > call.pre.start_time

(* C15: in every add_data, check_limits, context and close call,           *)
(* request_per_minute_used and tokens_per_minute_used restart (at 1 and    *)
(* the call's tokens) exactly in the calls that replace start_time, both   *)
(* together; a call that keeps start_time leaves the two counters alone,   *)
(* adds the recorded request to them, or closes them.                      *)
C15_MinuteRestartTogether ==
  call.op \in LimiterOps =>
    IF limiter.start_time /= call.pre.start_time
    THEN /\ call.op \in CheckOps \cup RecordOps
         /\ limiter.request_per_minute_used = 1
         /\ limiter.tokens_per_minute_used = call.arg
    ELSE /\ limiter.request_per_minute_used =
              IF call.op \in RecordOps
              THEN call.pre.request_per_minute_used + 1
              ELSE IF call.op = "close_minute_limit"
              THEN call.pre.request_per_minute_limit
              ELSE call.pre.request_per_minute_used
         /\ limiter.tokens_per_minute_used =
              IF call.op \in RecordOps
              THEN call.pre.tokens_per_minute_used + call.arg
              ELSE IF call.op = "close_minute_limit"
              THEN call.pre.tokens_per_minute_limit
              ELSE call.pre.tokens_per_minute_used

C15_Witness ==
  /\ call.op = "add_data"
  /\ pc = "idle"
  /\ limiter.start_time /= call.pre.start_time
  /\ call.pre.request_per_minute_used > 1
  /\ call.arg > 0
  /\ limiter.request_per_minute_used = 1

(* C16: in every add_data / check_limits call (and their async variants),  *)
(* with the date never going back, limit_day changes only to the current   *)
(* New York date, only forward, and only together with                     *)
(* request_per_day_used = 1; a call that keeps limit_day does not lower    *)
(* request_per_day_used; the context and close calls do not change         *)
(* limit_day.                                                              *)
C16_DayWindowForward ==
  /\ call.op \in CheckOps \cup RecordOps =>
       IF limiter.limit_day /= call.pre.limit_day
       THEN /\ limiter.limit_day.date = call.today
            /\ limiter.limit_day.date > call.pre.limit_day.date
            /\ limiter.request_per_day_used = 1
       ELSE limiter.request_per_day_used >= call.pre.request_per_day_used
  /\ call.op \in ContextOps \cup CloseOps =>
       limiter.limit_day = call.pre.limit_day

C16_Witness ==
  /\ call.op = "check_limits"
  /\ limiter.limit_day /= call.pre.limit_day
  /\ call.pre.request_per_day_used > 1
  /\ limiter.request_per_day_used = 1

RestoreOps == {"GeminiLimiter", "limiter_settings"}

(* C18: exporting the settings and building a new limiter from them, or    *)
(* importing them through the setter, preserves limit_day, the day counter *)
(* and limit, the minute limits, the context counter and limit and the     *)
(* raise flag exactly, and the restored limiter has                        *)
(* request_per_minute_used = 0, tokens_per_minute_used = 0 and a fresh     *)
(* start_time.                                                             *)
C18_RoundTrip ==
  call.op \in RestoreOps =>
    /\ limiter.limit_day = call.pre.limit_day
    /\ limiter.request_per_day_used = call.pre.request_per_day_used
    /\ limiter.request_per_day_limit = call.pre.request_per_day_limit
    /\ limiter.request_per_minute_limit = call.pre.request_per_minute_limit
    /\ limiter.tokens_per_minute_limit = call.pre.tokens_per_minute_limit
    /\ limiter.context_used = call.pre.context_used
    /\ limiter.context_limit = call.pre.context_limit
    /\ limiter.raise_error_on_minute_limit = call.pre.raise_error_on_minute_limit
    /\ limiter.request_per_minute_used = 0
    /\ limiter.tokens_per_minute_used = 0
    /\ limiter.start_time = call.now

(* ======================= GeminiClientsManager ======================= *)
(* A client is a limiter with an api_key (GeminiClient inherits            *)
(* GeminiModel, which inherits GeminiLimiter). The manager is the list     *)
(* clients and current_model_index, which is None or Optional(i).          *)
ApiKeys == {"api_key_1", "api_key_2"}

GeminiClientSettings(api_key, request_per_day_used) ==
  [api_key |-> api_key,
   limiter_settings |->
     GeminiLimiterSettings(datetime(0, "EST"), request_per_day_used, MaxDayLimit,
                           MaxMinuteLimit, MaxTokensLimit, 0,
                           MaxContextLimit, TRUE)]

GeminiClient(client_settings, t) ==
  GeminiLimiter(client_settings.limiter_settings, t)
    @@ [api_key |-> client_settings.api_key]

(* list indexing as Python does it: list[i] for 0 <= i < len(list),        *)
(* list[len(list) + i] for -len(list) <= i < 0, IndexError otherwise       *)
in_range(list, i) == 0 - Len(list) <= i /\ i < Len(list)

getitem(list, i) == IF i >= 0 THEN list[i + 1] ELSE list[Len(list) + i + 1]

PoolResult(m, outcome, value) == [mgr |-> m, outcome |-> outcome, value |-> value]

RECURSIVE first_index(_, _, _)
(* for i in range(len(clients)): if test(clients[i]): return i; return None *)
first_index(list, hit, i) ==
  IF i >= Len(list) THEN None
  ELSE IF hit[i + 1] THEN Optional(i)
  ELSE first_index(list, hit, i + 1)

(* mutant: the last client with the key *)
get_client_index_last(m, model_api_key) ==
  LET matches == {i \in 1..Len(m.clients) : m.clients[i].api_key = model_api_key}
  IN IF matches = {} THEN None
     ELSE Optional((CHOOSE i \in matches : \A j \in matches : j <= i) - 1)

get_client_index(m, model_api_key) ==
  first_index(m.clients,
              [i \in 1..Len(m.clients) |-> m.clients[i].api_key = model_api_key], 0)

(* mutant: a client that has used exactly its day quota counts as useful *)
lowest_useful_client_index_le(m) ==
  first_index(m.clients,
              [i \in 1..Len(m.clients) |-> has_day_limits_le(m.clients[i])], 0)

lowest_useful_client_index(m) ==
  first_index(m.clients,
              [i \in 1..Len(m.clients) |-> has_day_limits(m.clients[i])], 0)

(* mutant: every client must have day quota *)
has_useful_model_all(m) == \A i \in 1..Len(m.clients) : has_day_limits(m.clients[i])

has_useful_model(m) == \E i \in 1..Len(m.clients) : has_day_limits(m.clients[i])

(* mutant: the key wins when both arguments are given *)
client_key_wins(m, model_index, model_api_key) ==
  LET current == IF model_api_key /= None
                 THEN get_client_index(m, model_api_key.value)
                 ELSE IF model_index /= None
                 THEN IF model_index.value < Len(m.clients) THEN model_index ELSE None
                 ELSE m.current_model_index
      m1 == [m EXCEPT !.current_model_index = current]
  IN IF current = None THEN PoolResult(m1, OK, None)
     ELSE IF in_range(m1.clients, current.value)
     THEN PoolResult(m1, OK, getitem(m1.clients, current.value))
     ELSE PoolResult(m1, IndexError, None)

client(m, model_index, model_api_key) ==
  IF model_index /= None /\ model_api_key /= None
  THEN PoolResult(m, ValueError, None)
  ELSE LET current == IF model_api_key /= None
                      THEN get_client_index(m, model_api_key.value)
                      ELSE IF model_index /= None
                      THEN IF model_index.value < Len(m.clients) THEN model_index ELSE None
                      ELSE m.current_model_index
           m1 == [m EXCEPT !.current_model_index = current]
       IN IF current = None THEN PoolResult(m1, OK, None)
          ELSE IF in_range(m1.clients, current.value)
          THEN PoolResult(m1, OK, getitem(m1.clients, current.value))
          ELSE PoolResult(m1, IndexError, None)

(* mutant: the index stays where it is *)
next_client_stays(m) ==
  IF m.current_model_index /= None /\ Len(m.clients) = 0
  THEN PoolResult(m, ZeroDivisionError, None)
  ELSE client([m EXCEPT !.current_model_index =
                 IF m.current_model_index /= None
                 THEN m.current_model_index
                 ELSE Optional(0)],
              None, None)

(* mutant: the index is advanced without wrapping *)
next_client_no_wrap(m) ==
  IF m.current_model_index /= None /\ Len(m.clients) = 0
  THEN PoolResult(m, ZeroDivisionError, None)
  ELSE client([m EXCEPT !.current_model_index =
                 IF m.current_model_index /= None
                 THEN Optional(m.current_model_index.value + 1)
                 ELSE Optional(0)],
              None, None)

next_client(m) ==
  IF m.current_model_index /= None /\ Len(m.clients) = 0
  THEN PoolResult(m, ZeroDivisionError, None)
  ELSE client([m EXCEPT !.current_model_index =
                 IF m.current_model_index /= None
                 THEN Optional((m.current_model_index.value + 1) % Len(m.clients))
                 ELSE Optional(0)],
              None, None)

(* mutant: the first client is selected whatever its quota *)
GeminiClientsManager_first(gemini_clients_settings, t) ==
  LET cs == [i \in 1..Len(gemini_clients_settings) |->
               GeminiClient(gemini_clients_settings[i], t)]
  IN [clients |-> cs,
      current_model_index |-> IF Len(cs) > 0 THEN Optional(0) ELSE None]

GeminiClientsManager(gemini_clients_settings, t) ==
  LET cs == [i \in 1..Len(gemini_clients_settings) |->
               GeminiClient(gemini_clients_settings[i], t)]
  IN [clients |-> cs,
      current_model_index |->
        lowest_useful_client_index([clients |-> cs, current_model_index |-> None])]

reset_clients(m, gemini_clients_settings, t) ==
  GeminiClientsManager(gemini_clients_settings, t)

(* ---- the manager's inputs ---- *)
(* a client is configured fresh or with its day quota used up *)
ClientSettings ==
  {GeminiClientSettings(k, u) : k \in ApiKeys, u \in {0, MaxDayLimit}}

ClientSettingsLists == UNION {[1..n -> ClientSettings] : n \in 0..MaxClients}

ModelIndexes ==
  {None} \cup {Optional(i) : i \in (0 - MaxClients - 1)..(MaxClients + 1)}

ModelApiKeys == {None} \cup {Optional(k) : k \in ApiKeys \cup {"unknown_api_key"}}

manager == [clients |-> clients, current_model_index |-> current_model_index]

PoolFinish(op, arg, r) ==
  /\ clients' = r.mgr.clients
  /\ current_model_index' = r.mgr.current_model_index
  /\ call' = [op |-> op, arg |-> arg, pre |-> manager,
              outcome |-> r.outcome, value |-> r.value]
  /\ UNCHANGED <<limiter, now, today, pc, tasks, log>>

(* ---- the manager's actions ---- *)
InitPool ==
  /\ now = 0
  /\ today = 0
  /\ pc = "idle"
  /\ tasks = <<>>
  /\ log = <<>>
  /\ limiter = GeminiLimiter(
       GeminiLimiterSettings(None, 0, MaxDayLimit, MaxMinuteLimit,
                             MaxTokensLimit, 0, MaxContextLimit, FALSE), now)
  /\ \E settings \in ClientSettingsLists :
       /\ call = [op |-> "GeminiClientsManager", arg |-> settings,
                  outcome |-> OK, value |-> None]
       /\ clients = GeminiClientsManager(settings, now).clients
       /\ current_model_index = GeminiClientsManager(settings, now).current_model_index

Client(model_index, model_api_key) ==
  PoolFinish("client",
             [model_index |-> model_index, model_api_key |-> model_api_key],
             client(manager, model_index, model_api_key))

NextClient ==
  PoolFinish("next_client", None, next_client(manager))

(* reset_clients reads nothing of the manager it replaces: its call       *)
(* record holds no pre-state                                              *)
ResetClients(settings) ==
  LET m == reset_clients(manager, settings, now)
  IN /\ clients' = m.clients
     /\ current_model_index' = m.current_model_index
     /\ call' = [op |-> "reset_clients", arg |-> settings,
                 outcome |-> OK, value |-> None]
     /\ UNCHANGED <<limiter, now, today, pc, tasks, log>>

(* the two read-only queries *)
LowestUsefulClientIndex ==
  PoolFinish("lowest_useful_client_index", None,
             PoolResult(manager, OK, lowest_useful_client_index(manager)))

HasUsefulModel ==
  PoolFinish("has_useful_model", None,
             PoolResult(manager, OK, has_useful_model(manager)))

NextPool ==
  \/ \E model_index \in ModelIndexes, model_api_key \in ModelApiKeys :
       Client(model_index, model_api_key)
  \/ NextClient
  \/ LowestUsefulClientIndex
  \/ HasUsefulModel
  \/ \E settings \in ClientSettingsLists : ResetClients(settings)

SpecPool == InitPool /\ [][NextPool]_vars

(* C19: client called with both model_index and model_api_key raises       *)
(* ValueError, whatever the index and the key, and leaves                  *)
(* current_model_index and clients as they were.                           *)
C19_BothArgumentsRejected ==
  (/\ call.op = "client"
   /\ call.arg.model_index /= None
   /\ call.arg.model_api_key /= None)
  => /\ call.outcome = ValueError
     /\ clients = call.pre.clients
     /\ current_model_index = call.pre.current_model_index

C19_Witness ==
  /\ call.op = "client"
  /\ call.arg.model_index = Optional(0)
  /\ call.arg.model_api_key /= None
  /\ Len(clients) > 1
  /\ clients[2].api_key = call.arg.model_api_key.value
  /\ call.pre.current_model_index = Optional(1)
  /\ call.outcome = ValueError

(* C20: client(model_index = i) sets current_model_index to i and returns  *)
(* clients[i] when 0 <= i < len(clients), and otherwise sets               *)
(* current_model_index to None and returns None without raising, for      *)
(* every integer i, negative ones included.                                *)
C20_SelectByIndex ==
  (/\ call.op = "client"
   /\ call.arg.model_index /= None
   /\ call.arg.model_api_key = None)
  => /\ call.outcome = OK
     /\ clients = call.pre.clients
     /\ IF 0 <= call.arg.model_index.value
           /\ call.arg.model_index.value < Len(clients)
        THEN /\ current_model_index = call.arg.model_index
             /\ call.value = clients[call.arg.model_index.value + 1]
        ELSE /\ current_model_index = None
             /\ call.value = None

(* ---- one caller reading next_client again and again ---- *)
(* the run starts with one client(model_index) call at most, and every    *)
(* next_client call is written to log                                     *)
MaxCalls == 2 * MaxClients + 1

SelectFirst(model_index) ==
  /\ call.op = "GeminiClientsManager"
  /\ Client(model_index, None)

NextClientLogged ==
  LET r == next_client(manager)
  IN /\ Len(log) < MaxCalls
     /\ clients' = r.mgr.clients
     /\ current_model_index' = r.mgr.current_model_index
     /\ call' = [op |-> "next_client", arg |-> None, pre |-> manager,
                 outcome |-> r.outcome, value |-> r.value]
     /\ log' = Append(log, [pre |-> current_model_index,
                            index |-> r.mgr.current_model_index,
                            outcome |-> r.outcome, value |-> r.value])
     /\ UNCHANGED <<limiter, now, today, pc, tasks>>

NextRoundRobin ==
  \/ \E model_index \in ModelIndexes : SelectFirst(model_index)
  \/ NextClientLogged

SpecRoundRobin == InitPool /\ [][NextRoundRobin]_vars

(* ---- two callers reading next_client with no lock ---- *)
(* next_client is three accesses to current_model_index: the read of line *)
(* 89 (the test "is not None" and the read of the value, which no store   *)
(* of another next_client can tell apart), the store of line 89, and the  *)
(* read of client() at line 69. Another caller's accesses can fall        *)
(* between any two of them.                                               *)
Callers == {"a", "b"}

NoTask ==
  [pc |-> "idle", start |-> None, first |-> FALSE, alone |-> FALSE,
   new |-> None, index |-> None, outcome |-> OK, value |-> None]

(* mutant: the index is advanced without wrapping *)
next_index_no_wrap(m) ==
  IF m.current_model_index /= None
  THEN Optional(m.current_model_index.value + 1)
  ELSE Optional(0)

(* the right-hand side of line 89 *)
next_index(m) ==
  IF m.current_model_index /= None
  THEN Optional((m.current_model_index.value + 1) % Len(m.clients))
  ELSE Optional(0)

InitRace ==
  /\ now = 0
  /\ today = 0
  /\ pc = "idle"
  /\ log = <<>>
  /\ tasks = [c \in Callers |-> NoTask]
  /\ limiter = GeminiLimiter(
       GeminiLimiterSettings(None, 0, MaxDayLimit, MaxMinuteLimit,
                             MaxTokensLimit, 0, MaxContextLimit, FALSE), now)
  /\ \E settings \in ClientSettingsLists :
       /\ call = [op |-> "GeminiClientsManager", arg |-> settings,
                  outcome |-> OK, value |-> None]
       /\ clients = GeminiClientsManager(settings, now).clients
       /\ current_model_index = GeminiClientsManager(settings, now).current_model_index

SelectBefore(model_index) ==
  /\ \A c \in Callers : tasks[c].pc = "idle"
  /\ SelectFirst(model_index)

Load(c) ==
  /\ tasks[c].pc = "idle"
  /\ tasks' = [tasks EXCEPT ![c] =
       [NoTask EXCEPT
          !.start = current_model_index,
          !.first = \A o \in Callers \ {c} : tasks[o].pc = "idle",
          !.alone = \A o \in Callers \ {c} : tasks[o].pc \in {"idle", "done"},
          !.pc = IF current_model_index /= None /\ Len(clients) = 0
                 THEN "done" ELSE "store",
          !.outcome = IF current_model_index /= None /\ Len(clients) = 0
                      THEN ZeroDivisionError ELSE OK,
          !.new = IF current_model_index /= None /\ Len(clients) = 0
                  THEN None ELSE next_index(manager)]]
  /\ UNCHANGED <<limiter, now, today, pc, call, clients, current_model_index, log>>

Store(c) ==
  /\ tasks[c].pc = "store"
  /\ current_model_index' = tasks[c].new
  /\ tasks' = [tasks EXCEPT ![c].pc = "client"]
  /\ UNCHANGED <<limiter, now, today, pc, call, clients, log>>

Return(c) ==
  LET r == client(manager, None, None)
  IN /\ tasks[c].pc = "client"
     /\ tasks' = [tasks EXCEPT ![c].pc = "done",
                               ![c].index = current_model_index,
                               ![c].outcome = r.outcome,
                               ![c].value = r.value]
     /\ UNCHANGED <<limiter, now, today, pc, call, clients, current_model_index, log>>

NextRace ==
  \/ \E model_index \in ModelIndexes : SelectBefore(model_index)
  \/ \E c \in Callers : Load(c)
  \/ \E c \in Callers : Store(c)
  \/ \E c \in Callers : Return(c)

SpecRace == InitRace /\ [][NextRace]_vars

(* ---- the limiter calls made on the clients of a manager ---- *)
(* a client is a GeminiLimiter (GeminiClient extends GeminiModel, which   *)
(* extends GeminiLimiter): a caller holding clients[i] calls the limiter  *)
(* methods on it. A run follows one caller, who picks one client of the   *)
(* list and keeps to it; the clock stands still.                          *)
ClientOps ==
  {"check_limits", "add_data", "add_context", "decrease_context",
   "clear_context", "close_day_limit", "close_minute_limit"}

limiter_call(l, op, tokens, t, d) ==
  CASE op = "check_limits" -> check_limits(l, tokens, t, d)
    [] op = "add_data" -> add_data(l, tokens, t, d)
    [] op = "add_context" -> add_context(l, tokens)
    [] op = "decrease_context" -> decrease_context(l, tokens)
    [] op = "clear_context" -> Result(clear_context(l), OK)
    [] op = "close_day_limit" -> Result(close_day_limit(l), OK)
    [] op = "close_minute_limit" -> Result(close_minute_limit(l), OK)

(* mutant: a client that meets its day limit hands over to the next one *)
client_call_failover(m, i, r) ==
  [m EXCEPT !.clients[i] = r.lim,
            !.current_model_index =
              IF r.outcome = GeminiDayLimitException
              THEN next_index(m) ELSE m.current_model_index]

(* the method assigns fields of the one object it is called on *)
client_call(m, i, r) == [m EXCEPT !.clients[i] = r.lim]

ClientCall(i, op, tokens) ==
  LET r == limiter_call(clients[i], op, tokens, now, datetime_now)
      m == client_call(manager, i, r)
  IN /\ op \in {"clear_context", "close_day_limit", "close_minute_limit"}
          => tokens = 0
     /\ op = "add_data" => CanRecord(clients[i], tokens)
     /\ call.op \in ClientOps => i = call.client
     /\ clients' = m.clients
     /\ current_model_index' = m.current_model_index
     /\ call' = [op |-> op, arg |-> tokens, client |-> i, pre |-> manager,
                 outcome |-> r.outcome, value |-> None]
     /\ UNCHANGED <<limiter, now, today, pc, tasks, log>>

NextPoolUse ==
  \E i \in 1..Len(clients), op \in ClientOps, tokens \in Tokens :
    ClientCall(i, op, tokens)

SpecPoolUse == InitPool /\ [][NextPoolUse]_vars

(* ---- the request paths of a chat and of a client ---- *)
(* GeminiChat / GeminiAsyncChat send_message and send_message_stream      *)
(* (chat.py), GeminiClient generate_content, generate_content_stream and  *)
(* their async twins (client.py). The object is a GeminiLimiter itself:   *)
(* its counters are the variable limiter. tasks is the request in         *)
(* progress, log the calls the request has made so far, in order.         *)
Paths == [chat : BOOLEAN, stream : BOOLEAN, async : BOOLEAN]

NoRequest ==
  [path |-> [chat |-> FALSE, stream |-> FALSE, async |-> FALSE],
   pc |-> "idle", prompt |-> 0, chunks |-> 0]

Event(event, tokens, outcome) ==
  [event |-> event, tokens |-> tokens, outcome |-> outcome]

(* an answer: candidates is None or a list whose entries carry a          *)
(* token_count or None                                                    *)
Responses ==
  {[candidates |-> None]} \cup
  {[candidates |-> Optional(c)] :
     c \in UNION {[1..n -> {None, Optional(0), Optional(MaxTokens)}] :
                    n \in 0..MaxCandidates}}

RECURSIVE sum_token_count(_, _)
sum_token_count(candidates, i) ==
  IF i > Len(candidates) THEN 0
  ELSE (IF candidates[i] /= None THEN candidates[i].value ELSE 0)
       + sum_token_count(candidates, i + 1)

extract_token_count_from_gemini_response(gemini_response) ==
  IF gemini_response.candidates /= None
  THEN sum_token_count(gemini_response.candidates.value, 1)
  ELSE 0

(* add_data run to its return: the wait of check_limits ends when the     *)
(* minute is over and restarts the minute counters                        *)
run_to_return(r, tokens, t) ==
  IF r.outcome = Sleep
  THEN [lim |-> restart_minute_counters(r.lim, tokens,
                                        r.lim.start_time + MinuteSeconds),
        outcome |-> OK, now |-> r.lim.start_time + MinuteSeconds]
  ELSE [lim |-> r.lim, outcome |-> r.outcome, now |-> t]

(* mutant: the request goes on after add_data has raised *)
after_add_data_goes_on(outcome) == "send"

(* an exception of add_data leaves the method *)
after_add_data(outcome) == IF outcome = OK THEN "send" ELSE "raised"

InitRequest ==
  /\ now = 0
  /\ today = 0
  /\ pc = "idle"
  /\ call = NoCall
  /\ clients = <<>>
  /\ current_model_index = None
  /\ tasks = NoRequest
  /\ log = <<>>
  /\ \E raise \in BOOLEAN :
       limiter = GeminiLimiter(
         GeminiLimiterSettings(None, 0, MaxDayLimit, MaxMinuteLimit,
                               MaxTokensLimit, 0, MaxContextLimit, raise), now)

(* count_tokens, then add_data or async_add_data with its result *)
BeginRequest(path, tokens) ==
  LET r == run_to_return(
             IF path.async
             THEN async_add_data(limiter, tokens, now, datetime_now)
             ELSE add_data(limiter, tokens, now, datetime_now),
             tokens, now)
  IN /\ tasks.pc \in {"idle", "done", "raised"}
     /\ now <= MaxTime
     /\ CanRecord(limiter, tokens)
     /\ limiter' = r.lim
     /\ now' = r.now
     /\ tasks' = [path |-> path, pc |-> after_add_data(r.outcome),
                  prompt |-> tokens, chunks |-> 0]
     /\ log' = <<Event("count_tokens", tokens, OK),
                 Event("add_data", tokens, r.outcome)>>
     /\ UNCHANGED <<today, pc, call, clients, current_model_index>>

(* the call of the service: chat.send_message, models.generate_content    *)
(* or their stream and aio forms                                          *)
Send(chunks) ==
  /\ tasks.pc = "send"
  /\ chunks = 1 \/ tasks.path.stream
  /\ tasks' = [tasks EXCEPT !.pc = "receive", !.chunks = chunks]
  /\ log' = Append(log, Event("send", tasks.prompt, OK))
  /\ UNCHANGED <<limiter, now, today, pc, call, clients, current_model_index>>

(* the answer, or the next part of a streamed answer, arrives; a chat     *)
(* adds its token count to the context before handing it to the caller    *)
Receive(gemini_response) ==
  LET tokens == extract_token_count_from_gemini_response(gemini_response)
      r == IF tasks.path.chat THEN add_context(limiter, tokens)
                              ELSE Result(limiter, OK)
  IN /\ tasks.pc = "receive"
     /\ limiter' = r.lim
     /\ tasks' = [tasks EXCEPT
                    !.pc = IF r.outcome /= OK THEN "raised"
                           ELSE IF tasks.chunks = 1 THEN "done" ELSE "receive",
                    !.chunks = tasks.chunks - 1]
     /\ log' = log \o <<Event("response", tokens, OK)>>
                   \o (IF tasks.path.chat
                       THEN <<Event("add_context", tokens, r.outcome)>>
                       ELSE <<>>)
     /\ UNCHANGED <<now, today, pc, call, clients, current_model_index>>

(* the call of the service raises *)
ReceiveError ==
  /\ tasks.pc = "receive"
  /\ tasks' = [tasks EXCEPT !.pc = "raised"]
  /\ log' = Append(log, Event("error", 0, "error"))
  /\ UNCHANGED <<limiter, now, today, pc, call, clients, current_model_index>>

ClearChatHistory ==
  /\ tasks.pc \in {"idle", "done", "raised"}
  /\ limiter' = clear_context(limiter)
  /\ tasks' = NoRequest
  /\ log' = <<>>
  /\ UNCHANGED <<now, today, pc, call, clients, current_model_index>>

NextRequest ==
  \/ \E path \in Paths, tokens \in Tokens : BeginRequest(path, tokens)
  \/ \E chunks \in 1..MaxChunks : Send(chunks)
  \/ \E gemini_response \in Responses : Receive(gemini_response)
  \/ ReceiveError
  \/ ClearChatHistory
  \/ NewDay

SpecRequest == InitRequest /\ [][NextRequest]_vars

(* C21: client(model_api_key = k) sets current_model_index to the index of *)
(* the first client, in list order, whose api_key is k and returns that    *)
(* client; when no client has the key it sets current_model_index to None, *)
(* whatever it was, and returns None without raising.                      *)
C21_SelectByKey ==
  (/\ call.op = "client"
   /\ call.arg.model_index = None
   /\ call.arg.model_api_key /= None)
  => LET matches == {i \in 1..Len(clients) :
                       clients[i].api_key = call.arg.model_api_key.value}
     IN /\ call.outcome = OK
        /\ clients = call.pre.clients
        /\ IF matches = {}
           THEN /\ current_model_index = None
                /\ call.value = None
           ELSE \E i \in matches :
                  /\ \A j \in matches : i <= j
                  /\ current_model_index = Optional(i - 1)
                  /\ call.value = clients[i]

C21_Witness ==
  /\ call.op = "client"
  /\ call.arg.model_index = None
  /\ call.arg.model_api_key /= None
  /\ Len(clients) > 1
  /\ clients[1].api_key = call.arg.model_api_key.value
  /\ clients[2].api_key = call.arg.model_api_key.value
  /\ clients[1] /= clients[2]
  /\ call.pre.current_model_index = Optional(1)
  /\ current_model_index = Optional(0)
  /\ call.value = clients[1]

(* C22: client() with neither argument returns the client at               *)
(* current_model_index, or None when current_model_index is None, without  *)
(* raising, and leaves current_model_index and clients as they were.       *)
C22_SelectCurrent ==
  (/\ call.op = "client"
   /\ call.arg.model_index = None
   /\ call.arg.model_api_key = None)
  => /\ call.outcome = OK
     /\ clients = call.pre.clients
     /\ current_model_index = call.pre.current_model_index
     /\ IF current_model_index = None
        THEN call.value = None
        ELSE /\ 0 <= current_model_index.value
             /\ current_model_index.value < Len(clients)
             /\ call.value = clients[current_model_index.value + 1]

(* C23: with N >= 1 clients, next_client sets current_model_index to       *)
(* (current_model_index + 1) mod N, or to 0 when it was None, and returns  *)
(* the client at the new index; repeated calls that start at index 0       *)
(* return the indexes 1, 2, ..., N-1, 0, 1, ..., so that any N calls in a  *)
(* row return every client once.                                           *)
C23_RoundRobin ==
  Len(clients) >= 1
  => LET N == Len(clients)
     IN /\ \A k \in 1..Len(log) :
             /\ log[k].outcome = OK
             /\ log[k].index = IF log[k].pre = None
                               THEN Optional(0)
                               ELSE Optional((log[k].pre.value + 1) % N)
             /\ log[k].value = clients[log[k].index.value + 1]
             /\ k > 1 => log[k].pre = log[k - 1].index
        /\ (Len(log) >= 1 /\ log[1].pre = Optional(0))
           => /\ \A k \in 1..Len(log) : log[k].index = Optional(k % N)
              /\ \A s \in 1..Len(log) :
                   s + N - 1 <= Len(log)
                   => {log[j].index.value : j \in s..(s + N - 1)} = 0..(N - 1)

C23_Witness ==
  /\ Len(clients) >= 2
  /\ clients[1] /= clients[2]
  /\ Len(log) > Len(clients)
  /\ log[1].pre = Optional(0)
  /\ log[Len(clients)].index = Optional(0)

(* C28: two callers read next_client on a manager with N >= 1 clients,     *)
(* the first from the selection i. Whatever the interleaving, each gets    *)
(* the client at (i+1) mod N or at (i+2) mod N and current_model_index     *)
(* ends at one of the two; when the second call begins after the first     *)
(* has returned, the first gets (i+1) mod N, the second (i+2) mod N, and   *)
(* current_model_index ends at (i+2) mod N. The witness is an interleaving *)
(* in which both get the same client and the index has advanced by one.    *)
C28_TwoCallers ==
  (Len(clients) >= 1 /\ \A c \in Callers : tasks[c].pc = "done")
  => \E a \in Callers :
       LET b == CHOOSE c \in Callers : c /= a
           N == Len(clients)
           one == IF tasks[a].start = None
                  THEN 0 ELSE (tasks[a].start.value + 1) % N
           two == (one + 1) % N
       IN /\ tasks[a].first
          /\ \A c \in Callers :
               /\ tasks[c].outcome = OK
               /\ tasks[c].index \in {Optional(one), Optional(two)}
               /\ tasks[c].value = clients[tasks[c].index.value + 1]
          /\ current_model_index \in {Optional(one), Optional(two)}
          /\ (tasks[a].alone /\ tasks[b].alone)
             => /\ tasks[a].index = Optional(one)
                /\ tasks[b].index = Optional(two)
                /\ current_model_index = Optional(two)

C28_Witness ==
  /\ Len(clients) >= 2
  /\ clients[1] /= clients[2]
  /\ \A c \in Callers : tasks[c].pc = "done" /\ tasks[c].start = Optional(0)
  /\ tasks["a"].value = tasks["b"].value
  /\ tasks["a"].index = Optional(1)
  /\ current_model_index = Optional(1)

(* C29: a limiter call on one client of a manager (add_data, check_limits, *)
(* add_context, decrease_context, clear_context, close_day_limit,          *)
(* close_minute_limit), whether it returns or raises, leaves every other   *)
(* client and current_model_index as they were.                            *)
C29_OtherClientsUntouched ==
  call.op \in ClientOps
  => /\ Len(clients) = Len(call.pre.clients)
     /\ \A j \in 1..Len(clients) :
          j /= call.client => clients[j] = call.pre.clients[j]
     /\ current_model_index = call.pre.current_model_index

C29_Witness ==
  /\ call.op = "add_data"
  /\ call.outcome = GeminiDayLimitException
  /\ call.client = 1
  /\ Len(clients) > 1
  /\ current_model_index = Optional(0)
  /\ clients[1] /= call.pre.clients[1]
  /\ clients[2].request_per_day_used < clients[2].request_per_day_limit

(* C30: in every request path (send_message and send_message_stream of a  *)
(* chat, generate_content and generate_content_stream of a client, sync    *)
(* and async) the service is called only after add_data for the prompt's   *)
(* token count has returned without raising; when add_data raises, the     *)
(* service is not called; and a chat calls add_context for an answer's     *)
(* token count only after the service has returned that answer.            *)
C30_RequestOrder ==
  /\ \A k \in 1..Len(log) :
       /\ log[k].event = "send"
          => \E j \in 1..(k - 1) :
               /\ log[j].event = "add_data"
               /\ log[j].outcome = OK
               /\ log[j].tokens = tasks.prompt
       /\ log[k].event = "add_context"
          => /\ tasks.path.chat
             /\ \E j \in 1..(k - 1) : log[j].event = "send"
             /\ log[k - 1].event = "response"
             /\ log[k - 1].tokens = log[k].tokens
  /\ (\E j \in 1..Len(log) : log[j].event = "add_data" /\ log[j].outcome /= OK)
     => /\ tasks.pc = "raised"
        /\ \A k \in 1..Len(log) :
             log[k].event \notin {"send", "response", "add_context", "error"}

C30_Witness ==
  /\ tasks.path.chat
  /\ tasks.path.stream
  /\ tasks.pc = "done"
  /\ Len(log) = 7
  /\ log[2].event = "add_data"
  /\ log[3].event = "send"
  /\ log[5].event = "add_context"
  /\ log[5].tokens = MaxTokens
  /\ log[7].event = "add_context"
  /\ limiter.context_used = limiter.context_limit

(* C24: whenever at least one client has day quota, next_client returns a  *)
(* client that has day quota.                                              *)
C24_NextAvailable ==
  (/\ call.op = "next_client"
   /\ \E i \in 1..Len(call.pre.clients) :
        call.pre.clients[i].request_per_day_used
          < call.pre.clients[i].request_per_day_limit)
  => /\ call.outcome = OK
     /\ call.value /= None
     /\ call.value.request_per_day_used < call.value.request_per_day_limit

(* C25: lowest_useful_client_index returns the smallest index of a client  *)
(* whose request_per_day_used is below its request_per_day_limit, None     *)
(* when there is no such client (all exhausted, or no client at all), and  *)
(* leaves current_model_index and clients as they were.                    *)
C25_LowestUseful ==
  call.op = "lowest_useful_client_index"
  => LET useful == {i \in 1..Len(clients) :
                      clients[i].request_per_day_used
                        < clients[i].request_per_day_limit}
     IN /\ call.outcome = OK
        /\ clients = call.pre.clients
        /\ current_model_index = call.pre.current_model_index
        /\ IF useful = {}
           THEN call.value = None
           ELSE \E i \in useful :
                  /\ \A j \in useful : i <= j
                  /\ call.value = Optional(i - 1)

C25_Witness ==
  /\ call.op = "lowest_useful_client_index"
  /\ Len(clients) > 1
  /\ clients[1].request_per_day_used >= clients[1].request_per_day_limit
  /\ clients[2].request_per_day_used < clients[2].request_per_day_limit
  /\ call.value = Optional(1)
  /\ current_model_index = None

(* C26: has_useful_model is true exactly when some client has day quota,   *)
(* which is exactly when lowest_useful_client_index is not None; it is     *)
(* false when every client is exhausted and when there is no client.       *)
C26_HasUseful ==
  call.op = "has_useful_model"
  => /\ call.outcome = OK
     /\ clients = call.pre.clients
     /\ current_model_index = call.pre.current_model_index
     /\ call.value = (\E i \in 1..Len(clients) :
                        clients[i].request_per_day_used
                          < clients[i].request_per_day_limit)
     /\ call.value = (lowest_useful_client_index(manager) /= None)

C26_Witness ==
  /\ call.op = "has_useful_model"
  /\ Len(clients) > 1
  /\ clients[1].request_per_day_used >= clients[1].request_per_day_limit
  /\ clients[2].request_per_day_used < clients[2].request_per_day_limit
  /\ call.value = TRUE

NoWait == [wait |-> None]

(* the argument of time.sleep / asyncio.sleep at line 244 / 308 *)
sleep_seconds(l, t) == MinuteSeconds - (t - l.start_time)

(* time.sleep raises ValueError for a negative length; asyncio.sleep      *)
(* returns at once. The minute counters restart when the sleep is over.   *)
check_limits_two_reads(l, last_tokens, t, d, t2, async) ==
  LET r == IF async THEN async_check_limits(l, last_tokens, t, d)
                    ELSE check_limits(l, last_tokens, t, d)
      seconds == sleep_seconds(r.lim, t2)
      woken == IF seconds > 0 THEN t2 + seconds ELSE t2
  IN IF r.outcome /= Sleep
     THEN [lim |-> r.lim, outcome |-> r.outcome, now |-> t, wait |-> None]
     ELSE IF seconds < 0 /\ ~async
     THEN [lim |-> r.lim, outcome |-> ValueError, now |-> t2,
           wait |-> Optional(seconds)]
     ELSE [lim |-> restart_minute_counters(r.lim, last_tokens, woken),
           outcome |-> OK, now |-> woken, wait |-> Optional(seconds)]

InitClock ==
  /\ now = 0
  /\ today = 0
  /\ pc = "idle"
  /\ call = NoCall
  /\ clients = <<>>
  /\ current_model_index = None
  /\ tasks = NoWait
  /\ log = <<>>
  /\ \E raise \in BOOLEAN :
       limiter = GeminiLimiter(
         GeminiLimiterSettings(None, 0, MaxDayLimit, MaxMinuteLimit,
                               MaxTokensLimit, 0, MaxContextLimit, raise), now)

CheckLimitsClock(tokens, ticks, async) ==
  LET r == check_limits_two_reads(limiter, tokens, now, datetime_now,
                                  now + ticks * TickSeconds, async)
  IN /\ Idle
     /\ limiter' = r.lim
     /\ now' = r.now
     /\ tasks' = [wait |-> r.wait]
     /\ call' = Call(IF async THEN "async_check_limits" ELSE "check_limits",
                     tokens, limiter, r.outcome)
     /\ UNCHANGED <<today, pc, clients, current_model_index, log>>

NextClock ==
  \/ \E tokens \in Tokens, ticks \in 0..2, async \in BOOLEAN :
       CheckLimitsClock(tokens, ticks, async)
  \/ \E tokens \in Tokens : AddContext(tokens)
  \/ ClearContext
  \/ CloseDayLimit
  \/ CloseMinuteLimit
  \/ Tick
  \/ NewDay

SpecClock == InitClock /\ [][NextClock]_vars

(* ---- one minute window after another, one caller ---- *)
(* The day and context limits are wide enough not to end the run; the     *)
(* token counts are 0, the per-minute limit and one above the limit.      *)
(* log holds the token counts of the add_data calls that returned in the  *)
(* current minute window, the call that opened the window first.          *)
WindowDayLimit == 4 * (MaxMinuteLimit + 2)
WindowTokensLimit == MaxTokensLimit + 1
WindowTokens == {0, WindowTokensLimit, WindowTokensLimit + 1}
WindowContextLimit == 2 * (WindowTokensLimit + 1)

RECURSIVE SumTokens(_)
SumTokens(s) == IF s = <<>> THEN 0 ELSE Head(s) + SumTokens(Tail(s))

InitWindow ==
  /\ now = 0
  /\ today = 0
  /\ pc = "idle"
  /\ call = NoCall
  /\ clients = <<>>
  /\ current_model_index = None
  /\ tasks = <<>>
  /\ log = <<>>
  /\ \E raise \in BOOLEAN, minuteLimit \in 1..(MaxMinuteLimit + 1) :
       limiter = GeminiLimiter(
         GeminiLimiterSettings(None, 0, WindowDayLimit, minuteLimit,
                               WindowTokensLimit, 0, WindowContextLimit, raise), now)

(* one call, a wait included, from its first statement to its return *)
WindowCall(op, tokens, r) ==
  /\ limiter' = r.lim
  /\ now' = r.now
  /\ call' = Call(op, tokens, limiter, r.outcome)
  /\ log' = IF r.lim.start_time /= limiter.start_time
            THEN IF op \in RecordOps /\ r.outcome = OK THEN <<tokens>> ELSE <<>>
            ELSE IF op \in RecordOps /\ r.outcome = OK THEN Append(log, tokens)
            ELSE log
  /\ UNCHANGED <<today, pc, clients, current_model_index, tasks>>

RecordInWindow(tokens) ==
  /\ Idle
  /\ CanRecord(limiter, tokens)
  /\ WindowCall("add_data", tokens,
                run_to_return(add_data(limiter, tokens, now, datetime_now), tokens, now))

AsyncRecordInWindow(tokens) ==
  /\ Idle
  /\ CanRecord(limiter, tokens)
  /\ WindowCall("async_add_data", tokens,
                run_to_return(async_add_data(limiter, tokens, now, datetime_now), tokens, now))

CheckInWindow(tokens) ==
  /\ Idle
  /\ WindowCall("check_limits", tokens,
                run_to_return(check_limits(limiter, tokens, now, datetime_now), tokens, now))

NextWindow ==
  \/ \E tokens \in WindowTokens : RecordInWindow(tokens)
  \/ \E tokens \in WindowTokens : AsyncRecordInWindow(tokens)
  \/ \E tokens \in {0, WindowTokensLimit + 1} : CheckInWindow(tokens)
  \/ ClearContext
  \/ Tick

SpecWindow == InitWindow /\ [][NextWindow]_vars

(* ---- two tasks of one event loop on one limiter ---- *)
(* A task runs async_add_data without interruption up to the await of     *)
(* asyncio.sleep in async_check_limits; the other task may run while it   *)
(* is suspended. When its sleep is over the task restarts the minute       *)
(* counters with its own token count and returns.                          *)
NoCoop == [pc |-> "idle", tokens |-> 0, until |-> 0, window |-> 0,
           waited |-> FALSE, outcome |-> OK]

InitCoop ==
  /\ now = 0
  /\ today = 0
  /\ pc = "idle"
  /\ call = NoCall
  /\ clients = <<>>
  /\ current_model_index = None
  /\ tasks = [c \in Callers |-> NoCoop]
  /\ log = <<>>
  /\ \E minuteLimit \in 1..MaxMinuteLimit :
       limiter = GeminiLimiter(
         GeminiLimiterSettings(None, 0, MaxDayLimit + 2, minuteLimit,
                               MaxTokensLimit + 1, 0, MaxContextLimit + 1, FALSE), now)

(* the window is used up by earlier traffic before the tasks start *)
CoopClose ==
  /\ \A c \in Callers : tasks[c].pc = "idle"
  /\ CloseMinuteLimit

(* async_add_data up to its return or to the await of the sleep *)
CoopBegin(c, tokens) ==
  LET r == async_add_data(limiter, tokens, now, datetime_now)
  IN /\ tasks[c].pc = "idle"
     /\ now <= MaxTime
     /\ limiter' = r.lim
     /\ tasks' = [tasks EXCEPT ![c] =
          IF r.outcome = Sleep
          THEN [pc |-> "suspended", tokens |-> tokens,
                until |-> now + sleep_seconds(r.lim, now),
                window |-> r.lim.start_time, waited |-> TRUE, outcome |-> Sleep]
          ELSE [pc |-> "done", tokens |-> tokens, until |-> now,
                window |-> r.lim.start_time, waited |-> FALSE,
                outcome |-> r.outcome]]
     /\ call' = Call("async_add_data", tokens, limiter, r.outcome)
     /\ UNCHANGED <<now, today, pc, clients, current_model_index, log>>

(* the sleep is over: restart_minute_counters(last_tokens), then return *)
CoopResume(c) ==
  /\ tasks[c].pc = "suspended"
  /\ now >= tasks[c].until
  /\ limiter' = restart_minute_counters(limiter, tasks[c].tokens, now)
  /\ tasks' = [tasks EXCEPT ![c].pc = "done", ![c].outcome = OK]
  /\ call' = Call("async_add_data", tasks[c].tokens, limiter, OK)
  /\ UNCHANGED <<now, today, pc, clients, current_model_index, log>>

CoopTick ==
  /\ \/ now + TickSeconds <= MaxTime
     \/ \E c \in Callers : tasks[c].pc = "suspended" /\ now < tasks[c].until
  /\ now' = now + TickSeconds
  /\ UNCHANGED <<limiter, today, pc, call, clients, current_model_index, tasks, log>>

NextCoop ==
  \/ CoopClose
  \/ \E c \in Callers, tokens \in Tokens : CoopBegin(c, tokens)
  \/ \E c \in Callers : CoopResume(c)
  \/ CoopTick

SpecCoop == InitCoop /\ [][NextCoop]_vars

(* C31: after any sequence of manager calls current_model_index is None   *)
(* or an index i with 0 <= i < len(clients), and client() and next_client  *)
(* never raise IndexError or ZeroDivisionError.                            *)
C31_SelectionInRange ==
  /\ \/ current_model_index = None
     \/ /\ 0 <= current_model_index.value
        /\ current_model_index.value < Len(clients)
  /\ call.op \in {"client", "next_client"}
     => call.outcome \notin {IndexError, ZeroDivisionError}

C33_Original ==
  (/\ call.op \in RecordOps
   /\ call.pre.context_used + call.arg = call.pre.context_limit
   /\ ~DayExhaustedAtCall)
  => /\ call.outcome = GeminiContextLimitException
     /\ limiter.context_used = limiter.context_limit
     /\ limiter.request_per_day_used = call.pre.request_per_day_used + 1
     /\ limiter.request_per_minute_used = call.pre.request_per_minute_used + 1
     /\ limiter.tokens_per_minute_used = call.pre.tokens_per_minute_used + call.arg

(* C33 amended: the same, when the day quota is still available after the  *)
(* call's own increment (request_per_day_used + 1 < request_per_day_limit) *)
(* or the day window has expired; and every add_data / async_add_data call *)
(* made while context_used >= context_limit raises                         *)
(* GeminiDayLimitException or GeminiContextLimitException.                 *)
C33_Amended ==
  /\ (/\ call.op \in RecordOps
      /\ call.pre.context_used + call.arg = call.pre.context_limit
      /\ ~DayExhaustedAtCall
      /\ \/ DayExpiredAtCall
         \/ call.pre.request_per_day_used + 1 < call.pre.request_per_day_limit)
     => /\ call.outcome = GeminiContextLimitException
        /\ limiter.context_used = limiter.context_limit
        /\ limiter.request_per_day_used = call.pre.request_per_day_used + 1
        /\ limiter.request_per_minute_used = call.pre.request_per_minute_used + 1
        /\ limiter.tokens_per_minute_used
             = call.pre.tokens_per_minute_used + call.arg
  /\ (call.op \in RecordOps /\ ContextExhaustedAtCall)
     => call.outcome \in {GeminiDayLimitException, GeminiContextLimitException}

C33_Witness ==
  /\ call.op = "add_data"
  /\ call.arg > 0
  /\ call.pre.context_used + call.arg = call.pre.context_limit
  /\ call.pre.request_per_day_used + 1 < call.pre.request_per_day_limit
  /\ call.outcome = GeminiContextLimitException
  /\ limiter.context_used = limiter.context_limit

(* C34: an add_data / async_add_data call on a limiter whose day quota is  *)
(* exhausted (day window not expired) and whose context the tokens do not  *)
(* fit raises GeminiContextLimitException, not GeminiDayLimitException;    *)
(* context_used is unchanged, and request_per_day_used,                    *)
(* request_per_minute_used and tokens_per_minute_used are incremented.     *)
C34_ContextBeforeDay ==
  (/\ call.op \in RecordOps
   /\ ~DayExpiredAtCall
   /\ DayExhaustedAtCall
   /\ call.pre.context_used + call.arg > call.pre.context_limit)
  => /\ call.outcome = GeminiContextLimitException
     /\ limiter.context_used = call.pre.context_used
     /\ limiter.request_per_day_used = call.pre.request_per_day_used + 1
     /\ limiter.request_per_minute_used = call.pre.request_per_minute_used + 1
     /\ limiter.tokens_per_minute_used = call.pre.tokens_per_minute_used + call.arg

C34_Witness ==
  /\ call.op = "add_data"
  /\ ~DayExpiredAtCall
  /\ call.pre.request_per_day_used = call.pre.request_per_day_limit
  /\ call.pre.context_used + call.arg > call.pre.context_limit
  /\ call.outcome = GeminiContextLimitException
  /\ limiter.request_per_day_used > limiter.request_per_day_limit

(* C35 as stated: a check_limits / async_check_limits call that raises     *)
(* leaves every field of the limiter unchanged.                            *)
C35_Original ==
  (/\ call.op \in CheckOps
   /\ call.outcome \in {GeminiDayLimitException, GeminiContextLimitException,
                        GeminiMinuteLimitException})
  => limiter = call.pre

(* C35 amended: a check that raises the day or the context exception       *)
(* leaves every field unchanged; one that raises the minute exception      *)
(* leaves every field unchanged when the day window had not expired, and   *)
(* when it had, has rolled the day over (request_per_day_used = 1,         *)
(* limit_day = today) and left the other fields unchanged.                 *)
C35_Amended ==
  /\ (/\ call.op \in CheckOps
      /\ call.outcome \in {GeminiDayLimitException, GeminiContextLimitException})
     => limiter = call.pre
  /\ (call.op \in CheckOps /\ call.outcome = GeminiMinuteLimitException)
     => IF DayExpiredAtCall
        THEN /\ limiter.request_per_day_used = 1
             /\ limiter.limit_day.date = call.today
             /\ limiter = [call.pre EXCEPT !.request_per_day_used = 1,
                                           !.limit_day = limiter.limit_day]
        ELSE limiter = call.pre

C35_Witness ==
  /\ call.op = "check_limits"
  /\ call.outcome = GeminiMinuteLimitException
  /\ DayExpiredAtCall
  /\ call.pre.request_per_day_used > 1
  /\ limiter.request_per_day_used = 1

(* C36: whenever a check_limits call replaces start_time, after an        *)
(* expired minute or after its wait, the new value is at least 60 seconds  *)
(* later than the one it replaces; and the wait it enters is longer than 0 *)
(* and at most 60 seconds.                                                 *)
C36_WindowsApart ==
  /\ (/\ call.op \in CheckOps
      /\ limiter.start_time /= call.pre.start_time)
     => limiter.start_time >= call.pre.start_time + MinuteSeconds
  /\ tasks.wait /= None
     => /\ 0 < tasks.wait.value
        /\ tasks.wait.value <= MinuteSeconds

(* C37: with request_per_minute_limit >= 1 and one caller, the add_data    *)
(* calls that return without an exception between two replacements of      *)
(* start_time, the call that opened the window included, are at most       *)
(* request_per_minute_limit, in raise mode and in wait mode.               *)
C37_AdmittedPerWindow ==
  limiter.request_per_minute_limit >= 1
  => Len(log) <= limiter.request_per_minute_limit

(* a window opened by an add_data call, a second call admitted in it, and  *)
(* the third rejected with the minute exception                            *)
C37_Witness ==
  /\ call.op \in RecordOps
  /\ call.outcome = GeminiMinuteLimitException
  /\ call.pre.start_time > 0
  /\ Len(log) = 2

(* C38 as stated: after every add_data call that returns without an       *)
(* exception tokens_per_minute_used <= tokens_per_minute_limit, and the    *)
(* tokens admitted in one window sum to at most tokens_per_minute_limit.   *)
C38_Original ==
  /\ (call.op \in RecordOps /\ call.outcome = OK)
     => limiter.tokens_per_minute_used <= limiter.tokens_per_minute_limit
  /\ SumTokens(log) <= limiter.tokens_per_minute_limit

(* C38 amended: an add_data call that returns without an exception and     *)
(* without replacing start_time leaves tokens_per_minute_used below the    *)
(* limit; one that replaces start_time (after an expired window or after   *)
(* its wait) leaves tokens_per_minute_used equal to its own token count,   *)
(* whatever that is. The tokens admitted in one window sum to at most      *)
(* tokens_per_minute_used, and to at most the limit unless the call that   *)
(* opened the window alone is above it.                                    *)
C38_Amended ==
  /\ (call.op \in RecordOps /\ call.outcome = OK)
     => IF limiter.start_time = call.pre.start_time
        THEN limiter.tokens_per_minute_used < limiter.tokens_per_minute_limit
        ELSE limiter.tokens_per_minute_used = call.arg
  /\ SumTokens(log) <= limiter.tokens_per_minute_used
  /\ \/ SumTokens(log) <= limiter.tokens_per_minute_limit
     \/ Len(log) = 1 /\ log[1] > limiter.tokens_per_minute_limit

(* a request above the limit admitted by the call that waited for the      *)
(* window to end                                                           *)
C38_Witness ==
  /\ call.op \in RecordOps
  /\ call.outcome = OK
  /\ ~call.pre.raise_error_on_minute_limit
  /\ now = call.pre.start_time + MinuteSeconds
  /\ limiter.start_time = now
  /\ call.arg > limiter.tokens_per_minute_limit
  /\ limiter.tokens_per_minute_used = call.arg
  /\ log = <<call.arg>>

(* C40: in wait mode, when two tasks call async_add_data on one limiter    *)
(* and both are suspended in the same exhausted minute window, both return *)
(* admitted, and once both have returned request_per_minute_used = 2 and   *)
(* tokens_per_minute_used = the sum of their token counts.                 *)
C40_BothAccounted ==
  (/\ \A c \in Callers : tasks[c].pc = "done" /\ tasks[c].waited
   /\ tasks["a"].window = tasks["b"].window)
  => /\ \A c \in Callers : tasks[c].outcome = OK
     /\ limiter.request_per_minute_used = 2
     /\ limiter.tokens_per_minute_used = tasks["a"].tokens + tasks["b"].tokens

(* C39 as stated: request_per_day_used never exceeds request_per_day_limit, *)
(* also after add_data calls that were rejected.                           *)
C39_Original ==
  limiter.request_per_day_used <= limiter.request_per_day_limit

(* C39 amended: request_per_day_used <= request_per_day_limit holds after  *)
(* every add_data or check_limits call that returns without raising and    *)
(* after close_day_limit; an add_data call rejected with                   *)
(* GeminiDayLimitException leaves the counter one higher than before, so   *)
(* rejected calls raise it above the limit.                                *)
C39_Amended ==
  /\ (/\ call.op \in RecordOps \cup CheckOps
      /\ pc = "idle"
      /\ call.outcome = OK)
     => limiter.request_per_day_used <= limiter.request_per_day_limit
  /\ call.op = "close_day_limit"
     => limiter.request_per_day_used = limiter.request_per_day_limit
  /\ (call.op \in RecordOps /\ call.outcome = GeminiDayLimitException)
     => limiter.request_per_day_used = call.pre.request_per_day_used + 1

C39_Witness ==
  /\ call.op = "add_data"
  /\ call.outcome = GeminiDayLimitException
  /\ call.pre.request_per_day_used = call.pre.request_per_day_limit
  /\ limiter.request_per_day_used > limiter.request_per_day_limit

====
